---- MODULE Spec2Model ----
(***************************************************************************)
(* Model of the resumable upload engine of decomposedfs (package upload):  *)
(* one Upload bound to one Session, its staging file, its session record,  *)
(* the node it commits and the version snapshot of an overwritten node.    *)
(* Every exported method of Upload is one atomic action: the engine has a  *)
(* single writer per session and every call blocks until it returns.       *)
(* Failures of the file system and of the collaborators are inputs of the  *)
(* actions (a set F of the calls that fail in this invocation).            *)
(***************************************************************************)
EXTENDS Integers, Sequences, FiniteSets, TLC

\* ------------------------------------------------------------------ bounds
\* Largest number of bytes the staging file holds.
MaxStaged == 2
\* Largest number of collaborator calls that fail within one invocation.
MaxFaults == 2
\* Largest number of bytes the staging file of a partial upload holds.
MaxPartLen == 2

\* The byte values chunks are made of (both hex-encode to a letter digit).
Bytes == {10, 11}

SeqsUpTo(S, n) == UNION {[1..k -> S] : k \in 0..n}

\* ------------------------------------------------------------ byte strings
HexDigits == <<"0", "1", "2", "3", "4", "5", "6", "7",
               "8", "9", "a", "b", "c", "d", "e", "f">>

UpperDigits == <<"0", "1", "2", "3", "4", "5", "6", "7",
                 "8", "9", "A", "B", "C", "D", "E", "F">>

RECURSIVE HexWith(_, _)
HexWith(digits, bs) ==
    IF bs = <<>> THEN <<>>
    ELSE <<digits[(Head(bs) \div 16) + 1], digits[(Head(bs) % 16) + 1]>>
         \o HexWith(digits, Tail(bs))

\* hex.EncodeToString: two lower-case hex digits per byte.
EncodeToString(bs) == HexWith(HexDigits, bs)

\* The same digest written with upper-case hex digits (what a client may send).
UpperHex(bs) == HexWith(UpperDigits, bs)

\* ----------------------------------------------------------------- digests
AdlerMod == 65521

RECURSIVE AdlerAB(_, _, _)
AdlerAB(bs, a, b) ==
    IF bs = <<>> THEN <<a, b>>
    ELSE LET a2 == (a + Head(bs)) % AdlerMod
         IN  AdlerAB(Tail(bs), a2, (b + a2) % AdlerMod)

\* adler32.New() ... Sum(nil): the four big-endian bytes of b*65536 + a.
Adler32Sum(bs) ==
    LET ab == AdlerAB(bs, 1, 0)
    IN  <<ab[2] \div 256, ab[2] % 256, ab[1] \div 256, ab[1] % 256>>

\* sha1.New() ... Sum(nil) and md5.New() ... Sum(nil). The cryptographic
\* digests are modelled as collision-free functions of the bytes hashed: a
\* tag byte naming the algorithm followed by the bytes themselves.
Sha1Sum(bs) == <<161>> \o bs
Md5Sum(bs) == <<213>> \o bs

\* --------------------------------------------------------------- attributes
\* Names of the node attributes, as <<prefix, rest>> (package prefixes).
ChecksumPrefix == "user.ocis.cs."
OcisPrefix == "user.ocis."
Sha1Attr == <<ChecksumPrefix, "sha1">>
Md5Attr == <<ChecksumPrefix, "md5">>
Adler32Attr == <<ChecksumPrefix, "adler32">>
TypeAttr == <<OcisPrefix, "type">>
BlobIDAttr == <<OcisPrefix, "blobid">>
BlobsizeAttr == <<OcisPrefix, "blobsize">>
MTimeAttr == <<OcisPrefix, "mtime">>
StatusAttr == <<OcisPrefix, "status">>
NameAttr == <<OcisPrefix, "name">>

AttrNames == {Sha1Attr, Md5Attr, Adler32Attr, TypeAttr, BlobIDAttr,
              BlobsizeAttr, MTimeAttr, StatusAttr, NameAttr}

\* strings.HasPrefix(attributeName, prefix)
HasPrefix(attributeName, prefix) == attributeName[1] = prefix

\* An attribute value is a byte string; <<>> is "not set".
NoAttrs == [a \in AttrNames |-> <<>>]
Processing == <<1>>

\* The node an overwriting upload finds at its target before it commits.
OldAttrs ==
    [a \in AttrNames |->
        IF a = Sha1Attr THEN Sha1Sum(<<>>)
        ELSE IF a = Md5Attr THEN Md5Sum(<<>>)
        ELSE IF a = Adler32Attr THEN Adler32Sum(<<>>)
        ELSE IF a = BlobsizeAttr THEN <<0>>
        ELSE IF a = StatusAttr THEN <<>>
        ELSE IF a = NameAttr THEN <<6>>
        ELSE <<7>>]

\* ------------------------------------------------------------------- state
VARIABLES
    Session,     \* upload.Session: the in-memory tus.Session
    Node,        \* upload.Node # nil
    async,       \* upload.async
    pub,         \* upload.pub # nil
    binExists,   \* the staging file Session.BinPath exists
    bin,         \* its bytes
    info,        \* the durable session record: [exists, rec]
    node,        \* the node in the tree: [exists, link, attrs]
    version,     \* the version snapshot at Session.VersionsPath: [exists, attrs]
    blob,        \* the blobstore entry of the node: [exists, data]
    last,        \* the call that has just returned: its inputs, result and calls
    chunksOnly,  \* no call other than WriteChunk has touched the staging file
    submitted    \* while chunksOnly: the bytes the WriteChunk calls copied, in order

vars == <<Session, Node, async, pub, binExists, bin, info, node, version, blob,
          last, chunksOnly, submitted>>

\* The part of the state the methods of Upload read and write, as one value.
Here ==
    [Session |-> Session, Node |-> Node, binExists |-> binExists, bin |-> bin,
     info |-> info, node |-> node, version |-> version, blob |-> blob,
     calls |-> <<>>]

\* The program state of st, without the record of the calls made.
Observable(st) == [st EXCEPT !.calls = <<>>]

Becomes(st) ==
    /\ Session' = st.Session
    /\ Node' = st.Node
    /\ binExists' = st.binExists
    /\ bin' = st.bin
    /\ info' = st.info
    /\ node' = st.node
    /\ version' = st.version
    /\ blob' = st.blob

Called(st, c) == [st EXCEPT !.calls = Append(@, c)]

FaultSets(S) == {F \in SUBSET S : Cardinality(F) <= MaxFaults}

NoRec ==
    [Offset |-> 0, Size |-> 0, SizeIsDeferred |-> FALSE, ChecksumSHA1 |-> <<>>,
     ChecksumMD5 |-> <<>>, ChecksumADLER32 |-> <<>>, VersionsPath |-> "",
     SizeDiff |-> 0]

\* ------------------------------------------------------ collaborator calls
\* Body(v), with v evaluated once: the statement x := v followed by Body(x).
Bind(v, Body(_)) == CHOOSE y \in {Body(x) : x \in {v}} : TRUE

\* One entry of the record of calls: the callee, its integer argument (0 when
\* it has none) and the error it returned ("nil" for none). A message written
\* to the log is the entry "log" with the message as err.
Entry(name, arg, err) == [name |-> name, arg |-> arg, err |-> err]
Logged(st, msg) == Called(st, Entry("log", 0, msg))

\* The outcome of a call: the state it leaves and the error it returns.
Failed(st, name, arg, err) == [st |-> Called(st, Entry(name, arg, err)), err |-> err]
Done(st, name, arg) == [st |-> Called(st, Entry(name, arg, "nil")), err |-> "nil"]

\* if err != nil { log(msg) }
LogIfErr(r, msg) == IF r.err # "nil" THEN Logged(r.st, msg) ELSE r.st

\* tus.Session.Persist: writes the in-memory Session as the session record.
Persist(st, F) ==
    IF "Session.Persist" \in F
    THEN Failed(st, "Session.Persist", 0, "PersistError")
    ELSE Done([st EXCEPT !.info = [exists |-> TRUE, rec |-> st.Session]],
              "Session.Persist", 0)

\* tus.Session.Purge: removes the session record.
Purge(st, F) ==
    IF "Session.Purge" \in F THEN Failed(st, "Session.Purge", 0, "PurgeError")
    ELSE IF ~st.info.exists THEN Failed(st, "Session.Purge", 0, "ErrNotExist")
    ELSE Done([st EXCEPT !.info = [exists |-> FALSE, rec |-> NoRec]],
              "Session.Purge", 0)

\* os.Remove(upload.Session.BinPath)
RemoveBin(st, F) ==
    IF "os.Remove(BinPath)" \in F
    THEN Failed(st, "os.Remove(BinPath)", 0, "RemoveError")
    ELSE IF ~st.binExists THEN Failed(st, "os.Remove(BinPath)", 0, "ErrNotExist")
    ELSE Done([st EXCEPT !.binExists = FALSE, !.bin = <<>>], "os.Remove(BinPath)", 0)

\* utils.RemoveItem(upload.Node.InternalPath())
RemoveItem(st, F) ==
    IF "RemoveItem" \in F \/ ~st.node.exists
    THEN Failed(st, "RemoveItem", 0, "RemoveError")
    ELSE Done([st EXCEPT !.node.exists = FALSE, !.node.attrs = NoAttrs],
              "RemoveItem", 0)

\* os.Remove(filepath.Join(upload.Node.ParentPath(), upload.Node.Name))
RemoveLink(st, F) ==
    IF "os.Remove(link)" \in F \/ ~st.node.link
    THEN Failed(st, "os.Remove(link)", 0, "RemoveError")
    ELSE Done([st EXCEPT !.node.link = FALSE], "os.Remove(link)", 0)

\* lookup.CopyMetadata(ctx, src, target, filter, true): sets on the target
\* every attribute of the source for which filter says copy (copied: the
\* attribute names the filter accepts).
CopyMetadata(st, copied, F) ==
    IF "CopyMetadata" \in F \/ ~st.version.exists \/ ~st.node.exists
    THEN Failed(st, "CopyMetadata", 0, "CopyError")
    ELSE Done([st EXCEPT !.node.attrs =
                  [a \in AttrNames |->
                      IF st.version.attrs[a] # <<>> /\ a \in copied
                      THEN st.version.attrs[a]
                      ELSE st.node.attrs[a]]],
              "CopyMetadata", 0)

\* os.RemoveAll(p): no error when p is absent.
RemoveAll(st, F) ==
    IF "os.RemoveAll" \in F THEN Failed(st, "os.RemoveAll", 0, "RemoveError")
    ELSE Done([st EXCEPT !.version = [exists |-> FALSE, attrs |-> NoAttrs]],
              "os.RemoveAll", 0)

\* node.UnmarkProcessing(ctx, upload.Session.ID)
UnmarkProcessing(st, F) ==
    IF "UnmarkProcessing" \in F \/ ~st.node.exists
    THEN Failed(st, "UnmarkProcessing", 0, "UnmarkError")
    ELSE Done([st EXCEPT !.node.attrs[StatusAttr] = <<>>], "UnmarkProcessing", 0)

\* ----------------------------------------------------------------- cleanup
\* A filter that lets every attribute through.
CopyEverything(attributeName) == TRUE

\* The filter cleanup hands to CopyMetadata: the attributes restored from the
\* version snapshot.
CopyFilter(attributeName) ==
    \/ HasPrefix(attributeName, ChecksumPrefix)
    \/ attributeName = TypeAttr
    \/ attributeName = BlobIDAttr
    \/ attributeName = BlobsizeAttr
    \/ attributeName = MTimeAttr

\* errors.Is(err, fs.ErrNotExist)
IsNotExist(err) == err = "ErrNotExist"

\* LogUnlessNotExist without the exception for fs.ErrNotExist.
LogAnyError(r, msg) == LogIfErr(r, msg)

\* if err != nil && !errors.Is(err, fs.ErrNotExist) { log(msg) }
LogUnlessNotExist(r, msg) ==
    IF r.err # "nil" /\ ~IsNotExist(r.err) THEN Logged(r.st, msg) ELSE r.st

\* case "": remove the node, remove the child entry, forget the node.
cleanupNewNode(st, F) ==
    Bind(RemoveItem(st, F), LAMBDA r1 :
    Bind(RemoveLink(LogIfErr(r1, "removing node failed"), F), LAMBDA r2 :
        [LogIfErr(r2, "removing node from parent failed") EXCEPT !.Node = FALSE]))

\* default: restore the attributes of the version snapshot and remove it.
cleanupVersion(st, F) ==
    Bind(CopyMetadata(st, {a \in AttrNames : CopyFilter(a)}, F), LAMBDA r1 :
    Bind(RemoveAll(LogIfErr(r1, "renaming version node failed"), F), LAMBDA r2 :
        LogIfErr(r2, "error removing version")))

\* switch p := upload.Session.VersionsPath; p { case "": ... default: ... }
cleanupNode(st, F) ==
    IF st.Session.VersionsPath = "" THEN cleanupNewNode(st, F)
    ELSE cleanupVersion(st, F)

cleanupBin(st, F) ==
    Bind(RemoveBin(st, F), LAMBDA r : LogUnlessNotExist(r, "removing upload failed"))

cleanupInfo(st, F) ==
    Bind(Purge(st, F), LAMBDA r : LogUnlessNotExist(r, "removing upload info failed"))

\* func (upload *Upload) cleanup(cleanNode, cleanBin, cleanInfo bool)
cleanup(st, cleanNode, cleanBin, cleanInfo, F) ==
    Bind(IF cleanNode /\ st.Node THEN cleanupNode(st, F) ELSE st, LAMBDA s1 :
    Bind(IF cleanBin THEN cleanupBin(s1, F) ELSE s1, LAMBDA s2 :
        IF cleanInfo THEN cleanupInfo(s2, F) ELSE s2))

\* Cleanup without the unmark step.
CleanupWithoutUnmark(st, failure, keepUpload, F) ==
    cleanup(st, failure, ~keepUpload, ~keepUpload, F)

\* func Cleanup(upload *Upload, failure bool, keepUpload bool)
Cleanup(st, failure, keepUpload, F) ==
    Bind(cleanup(st, failure, ~keepUpload, ~keepUpload, F), LAMBDA s1 :
        IF s1.Node
        THEN Bind(UnmarkProcessing(s1, F), LAMBDA r :
                 LogIfErr(r, "unmarking processing failed"))
        ELSE s1)

\* Terminate that leaves the session record: cleanup(true, true, false).
TerminateKeepingInfo(st, F) ==
    [st |-> cleanup(st, TRUE, TRUE, FALSE, F), err |-> "nil"]

\* func (upload *Upload) Terminate(_ context.Context) error
TerminateResult(st, F) == [st |-> cleanup(st, TRUE, TRUE, TRUE, F), err |-> "nil"]

\* -------------------------------------------------------------- WriteChunk
\* The errors io.Copy(file, src) can end with; "nil" is a stream read to its end.
CopyErrors == {"nil", "ErrUnexpectedEOF", "IOError"}

\* CopyFailed without the exception for io.ErrUnexpectedEOF.
CopyFailedOnAnyError(err) == err # "nil"

\* if err != nil && err != io.ErrUnexpectedEOF { return n, err }
CopyFailed(err) == err # "nil" /\ err # "ErrUnexpectedEOF"

\* upload.Session.Offset += n
Advance(st, n) == [st EXCEPT !.Session.Offset = @ + n]

\* io.Copy(file, src) on a file opened with os.O_WRONLY|os.O_APPEND
AppendCopy(st, data) == [st EXCEPT !.bin = @ \o data]

\* func (upload *Upload) WriteChunk(_ context.Context, offset int64, src io.Reader)
\* src is [data, err]: the bytes io.Copy appends to the file before the stream
\* ends, and the error it ends with.
WriteChunkResult(st, offset, src, F) ==
    IF "os.OpenFile" \in F \/ ~st.binExists
    THEN [st |-> Called(st, Entry("os.OpenFile", 0, "OpenError")),
          n |-> 0, err |-> "OpenError"]
    ELSE Bind(Called(Called(AppendCopy(st, src.data), Entry("os.OpenFile", 0, "nil")),
                     Entry("io.Copy", Len(src.data), src.err)), LAMBDA s1 :
             IF CopyFailed(src.err)
             THEN [st |-> s1, n |-> Len(src.data), err |-> src.err]
             ELSE [st |-> Advance(s1, Len(src.data)), n |-> Len(src.data),
                   err |-> "nil"])

\* ----------------------------------------------------------- DeclareLength
\* func (upload *Upload) DeclareLength(_ context.Context, length int64) error
DeclareLengthResult(st, length, F) ==
    Persist([st EXCEPT !.Session.Size = length, !.Session.SizeIsDeferred = FALSE], F)

\* ----------------------------------------------------------- ConcatUploads
\* uploads[i] is the staging file of the i-th partial upload: [exists, data].
\* failAt is the index of the part whose copy fails after cut bytes (0: none).
RECURSIVE ConcatFrom(_, _, _, _, _)
ConcatFrom(st, uploads, i, failAt, cut) ==
    IF i > Len(uploads) THEN [st |-> st, err |-> "nil"]
    ELSE IF ~uploads[i].exists THEN Failed(st, "os.Open(part)", i, "OpenError")
    ELSE IF i = failAt
    THEN Failed(AppendCopy(st, SubSeq(uploads[i].data, 1, cut)),
                "io.Copy(part)", i, "IOError")
    ELSE Bind(Called(AppendCopy(st, uploads[i].data),
                     Entry("io.Copy(part)", i, "nil")), LAMBDA s1 :
             ConcatFrom(s1, uploads, i + 1, failAt, cut))

\* The sequence s from its last element to its first.
Reverse(s) == [i \in 1..Len(s) |-> s[Len(s) + 1 - i]]

\* ConcatUploads that walks the partial uploads from the last to the first.
ConcatUploadsBackwards(st, uploads, failAt, cut, F) ==
    IF "os.OpenFile" \in F \/ ~st.binExists
    THEN Failed(st, "os.OpenFile", 0, "OpenError")
    ELSE ConcatFrom(Called(st, Entry("os.OpenFile", 0, "nil")), Reverse(uploads), 1,
                    IF failAt = 0 THEN 0 ELSE Len(uploads) + 1 - failAt, cut)

\* func (upload *Upload) ConcatUploads(_ context.Context, uploads []tusd.Upload)
ConcatUploadsResult(st, uploads, failAt, cut, F) ==
    IF "os.OpenFile" \in F \/ ~st.binExists
    THEN Failed(st, "os.OpenFile", 0, "OpenError")
    ELSE ConcatFrom(Called(st, Entry("os.OpenFile", 0, "nil")), uploads, 1, failAt, cut)

\* ---------------------------------------------------------------- Finalize
\* Tree.WriteBlob(n, upload.Session.BinPath): stores the staged bytes as the blob.
WriteBlob(st, F) ==
    IF "WriteBlob" \in F \/ ~st.binExists
    THEN Failed(st, "WriteBlob", 0, "WriteBlobError")
    ELSE Done([st EXCEPT !.blob = [exists |-> TRUE, data |-> st.bin]], "WriteBlob", 0)

\* node.ReadNode(ctx, lu, SpaceRoot, NodeID, ...)
ReadNode(st, F) ==
    IF "ReadNode" \in F THEN Failed(st, "ReadNode", 0, "ReadNodeError")
    ELSE Done([st EXCEPT !.Node = TRUE], "ReadNode", 0)

\* func (upload *Upload) Finalize() (err error)
Finalize(st, F) ==
    Bind(IF st.Node THEN [st |-> st, err |-> "nil"] ELSE ReadNode(st, F), LAMBDA r1 :
        IF r1.err # "nil" THEN r1
        ELSE Bind(WriteBlob(r1.st, F), LAMBDA r2 :
                 IF r2.err # "nil" THEN [st |-> r2.st, err |-> "FinalizeError"]
                 ELSE r2))

\* ------------------------------------------------------------ FinishUpload
\* The bytes the three digests are computed over: the staging file read to
\* its end, the first k bytes when the read fails, nothing when os.Open fails.
HashedBytes(st, F, k) ==
    IF "os.Open" \in F \/ ~st.binExists THEN <<>>
    ELSE IF "io.Copy" \in F THEN SubSeq(st.bin, 1, k)
    ELSE st.bin

\* os.Open and io.Copy of FinishUpload: their errors are logged, nothing more.
ReadStaged(st, F) ==
    IF "os.Open" \in F \/ ~st.binExists
    THEN Logged(Called(Logged(Called(st, Entry("os.Open", 0, "OpenError")),
                              "error opening binPath"),
                       Entry("io.Copy", 0, "IOError")),
                "error copying checksums")
    ELSE IF "io.Copy" \in F
    THEN Logged(Called(Called(st, Entry("os.Open", 0, "nil")),
                       Entry("io.Copy", 0, "IOError")),
                "error copying checksums")
    ELSE Called(Called(st, Entry("os.Open", 0, "nil")), Entry("io.Copy", 0, "nil"))

\* func (upload *Upload) checkHash(expected string, h hash.Hash) error
checkHash(expected, sum) ==
    IF expected # EncodeToString(sum) THEN "ChecksumMismatch" ELSE "nil"

\* The switch with its first two cases in the other order: MD5 before SHA1.
VerifyChecksumMd5First(session, hashed) ==
    IF session.ChecksumMD5 # <<>>
    THEN checkHash(session.ChecksumMD5, Md5Sum(hashed))
    ELSE IF session.ChecksumSHA1 # <<>>
    THEN checkHash(session.ChecksumSHA1, Sha1Sum(hashed))
    ELSE IF session.ChecksumADLER32 # <<>>
    THEN checkHash(session.ChecksumADLER32, Adler32Sum(hashed))
    ELSE "nil"

\* switch { case ChecksumSHA1 != "": ... case ChecksumMD5 != "": ...
\*          case ChecksumADLER32 != "": ... }
VerifyChecksum(session, hashed) ==
    IF session.ChecksumSHA1 # <<>>
    THEN checkHash(session.ChecksumSHA1, Sha1Sum(hashed))
    ELSE IF session.ChecksumMD5 # <<>>
    THEN checkHash(session.ChecksumMD5, Md5Sum(hashed))
    ELSE IF session.ChecksumADLER32 # <<>>
    THEN checkHash(session.ChecksumADLER32, Adler32Sum(hashed))
    ELSE "nil"

\* attrs := node.Attributes{ChecksumPrefix + "sha1": ..., "md5": ..., "adler32": ...}
ChecksumAttrs(hashed) ==
    [a \in {Sha1Attr, Md5Attr, Adler32Attr} |->
        IF a = Sha1Attr THEN Sha1Sum(hashed)
        ELSE IF a = Md5Attr THEN Md5Sum(hashed)
        ELSE Adler32Sum(hashed)]

\* The attributes CreateNodeForUpload writes on the node it commits.
NewAttrs(st, attrs) ==
    [a \in AttrNames |->
        IF a \in DOMAIN attrs THEN attrs[a]
        ELSE IF a = BlobsizeAttr THEN <<st.Session.Size>>
        ELSE IF a = StatusAttr THEN Processing
        ELSE IF a \in {BlobIDAttr, MTimeAttr} THEN <<8>>
        ELSE <<7>>]

\* CreateNodeForUpload(upload, attrs): commits the node at the target of the
\* Session, marked as processing. An upload that replaces a node first keeps
\* the node it finds as the version snapshot at Session.VersionsPath.
CreateNodeForUpload(st, attrs, F) ==
    IF "CreateNodeForUpload" \in F
    THEN Failed(st, "CreateNodeForUpload", 0, "CreateNodeError")
    ELSE Done([st EXCEPT
                  !.version = IF st.Session.VersionsPath = "" \/ ~st.node.exists
                              THEN @
                              ELSE [exists |-> TRUE, attrs |-> st.node.attrs],
                  !.node = [exists |-> TRUE, link |-> TRUE,
                            attrs |-> NewAttrs(st, attrs)]],
              "CreateNodeForUpload", 0)

\* if upload.pub != nil { s, err := upload.URL(...); events.Publish(...) }
PublishBytesReceived(st, hasPub, F) ==
    IF ~hasPub THEN [st |-> st, err |-> "nil"]
    ELSE IF "URL" \in F THEN Failed(st, "URL", 0, "URLError")
    ELSE IF "Publish" \in F
    THEN Failed(Called(st, Entry("URL", 0, "nil")), "Publish", st.Session.Size,
                "PublishError")
    ELSE Done(Called(st, Entry("URL", 0, "nil")), "Publish", st.Session.Size)

\* upload.tp.Propagate(upload.Ctx, n, upload.Session.SizeDiff)
Propagate(st, sizeDiff, F) ==
    IF "Propagate" \in F THEN Failed(st, "Propagate", sizeDiff, "PropagateError")
    ELSE Done(st, "Propagate", sizeDiff)

\* Postprocessing in the request whatever the mode.
PostprocessAlways(isAsync) == TRUE

\* if !upload.async
PostprocessNow(isAsync) == ~isAsync

\* Postprocess that always cleans up as after a success: Cleanup(upload, false, false).
PostprocessKeepingNode(st, isAsync, F) ==
    IF PostprocessNow(isAsync)
    THEN Bind(Finalize(st, F), LAMBDA r :
             [st |-> Cleanup(r.st, FALSE, FALSE, F), err |-> r.err])
    ELSE [st |-> st, err |-> "nil"]

\* if !upload.async { err = upload.Finalize(); Cleanup(upload, err != nil, false) }
Postprocess(st, isAsync, F) ==
    IF PostprocessNow(isAsync)
    THEN Bind(Finalize(st, F), LAMBDA r :
             [st |-> Cleanup(r.st, r.err # "nil", FALSE, F), err |-> r.err])
    ELSE [st |-> st, err |-> "nil"]

\* AfterCommit that runs the failure cleanup when the event cannot be sent.
AfterCommitRollingBack(st, isAsync, hasPub, F) ==
    Bind(PublishBytesReceived([st EXCEPT !.Node = TRUE], hasPub, F), LAMBDA p :
        IF p.err # "nil" THEN [st |-> Cleanup(p.st, TRUE, FALSE, F), err |-> p.err]
        ELSE Bind(Postprocess(p.st, isAsync, F), LAMBDA q :
                 IF q.err # "nil" THEN q
                 ELSE Propagate(q.st, q.st.Session.SizeDiff, F)))

\* AfterCommit that propagates and returns nil whatever Propagate returned.
AfterCommitDroppingResult(st, isAsync, hasPub, F) ==
    Bind(PublishBytesReceived([st EXCEPT !.Node = TRUE], hasPub, F), LAMBDA p :
        IF p.err # "nil" THEN p
        ELSE Bind(Postprocess(p.st, isAsync, F), LAMBDA q :
                 IF q.err # "nil" THEN q
                 ELSE [st |-> Propagate(q.st, q.st.Session.SizeDiff, F).st,
                       err |-> "nil"]))

\* The steps of FinishUpload after the node is committed: upload.Node = n,
\* the event, postprocessing, propagation.
AfterCommit(st, isAsync, hasPub, F) ==
    Bind(PublishBytesReceived([st EXCEPT !.Node = TRUE], hasPub, F), LAMBDA p :
        IF p.err # "nil" THEN p
        ELSE Bind(Postprocess(p.st, isAsync, F), LAMBDA q :
                 IF q.err # "nil" THEN q
                 ELSE Propagate(q.st, q.st.Session.SizeDiff, F)))

\* AfterVerify that returns the mismatch without calling Cleanup.
AfterVerifyWithoutCleanup(st, err, hashed, isAsync, hasPub, F) ==
    IF err # "nil"
    THEN [st |-> st, err |-> err]
    ELSE Bind(CreateNodeForUpload(st, ChecksumAttrs(hashed), F), LAMBDA c :
             IF c.err # "nil"
             THEN [st |-> Cleanup(c.st, TRUE, FALSE, F), err |-> c.err]
             ELSE AfterCommit(c.st, isAsync, hasPub, F))

\* AfterVerify that propagates also when the commit failed.
AfterVerifyPropagating(st, err, hashed, isAsync, hasPub, F) ==
    IF err # "nil"
    THEN [st |-> Cleanup(st, TRUE, FALSE, F), err |-> err]
    ELSE Bind(CreateNodeForUpload(st, ChecksumAttrs(hashed), F), LAMBDA c :
             IF c.err # "nil"
             THEN Bind(Cleanup(c.st, TRUE, FALSE, F), LAMBDA s1 :
                      [st |-> Propagate(s1, s1.Session.SizeDiff, F).st,
                       err |-> c.err])
             ELSE AfterCommit(c.st, isAsync, hasPub, F))

\* The steps of FinishUpload after the digests are compared.
AfterVerify(st, err, hashed, isAsync, hasPub, F) ==
    IF err # "nil"
    THEN [st |-> Cleanup(st, TRUE, FALSE, F), err |-> err]
    ELSE Bind(CreateNodeForUpload(st, ChecksumAttrs(hashed), F), LAMBDA c :
             IF c.err # "nil"
             THEN [st |-> Cleanup(c.st, TRUE, FALSE, F), err |-> c.err]
             ELSE AfterCommit(c.st, isAsync, hasPub, F))

\* FinishUpload that returns the error of os.Open or io.Copy.
FinishUploadFailingOnRead(st, isAsync, hasPub, F, k) ==
    IF "os.Open" \in F \/ ~st.binExists \/ "io.Copy" \in F
    THEN [st |-> ReadStaged(st, F), err |-> "IOError"]
    ELSE Bind(HashedBytes(st, F, k), LAMBDA hashed :
         Bind(VerifyChecksum(st.Session, hashed), LAMBDA err :
         Bind(Called(ReadStaged(st, F), Entry("verify", 0, err)), LAMBDA s2 :
             AfterVerify(s2, err, hashed, isAsync, hasPub, F))))

\* func (upload *Upload) FinishUpload(_ context.Context) error
FinishUploadResult(st, isAsync, hasPub, F, k) ==
    Bind(HashedBytes(st, F, k), LAMBDA hashed :
    Bind(VerifyChecksum(st.Session, hashed), LAMBDA err :
    Bind(Called(ReadStaged(st, F), Entry("verify", 0, err)), LAMBDA s2 :
        AfterVerify(s2, err, hashed, isAsync, hasPub, F))))

\* -------------------------------------------------------------------- Init
\* The contents whose digests a client declares as expected.
RefA == <<10>>
RefB == <<10, 11>>

\* The values an expected digest of one algorithm takes on a Session: none,
\* the hex digest of RefA or of RefB, the digest of RefA in upper-case hex.
Expected(sumA, sumB) ==
    {<<>>, EncodeToString(sumA), EncodeToString(sumB), UpperHex(sumA)}

VersionsDir == "versions"

\* A Session as InitiateUpload leaves it: nothing written yet; the size is
\* deferred or declared.
Sessions ==
    {[Offset |-> 0, Size |-> size, SizeIsDeferred |-> d,
      ChecksumSHA1 |-> c1, ChecksumMD5 |-> c2, ChecksumADLER32 |-> c3,
      VersionsPath |-> vp, SizeDiff |-> -1] :
        d \in BOOLEAN, size \in 0..MaxStaged,
        c1 \in Expected(Sha1Sum(RefA), Sha1Sum(RefB)),
        c2 \in Expected(Md5Sum(RefA), Md5Sum(RefB)),
        c3 \in Expected(Adler32Sum(RefA), Adler32Sum(RefB)), vp \in {"", VersionsDir}}

NoCall ==
    [op |-> "none", offset |-> 0, data |-> <<>>, end |-> "nil", length |-> 0,
     failure |-> FALSE, keepUpload |-> FALSE, n |-> 0, err |-> "nil",
     calls |-> <<>>, hashed |-> <<>>, parts |-> <<>>]

\* buildUpload on a Session of the set S whose staging file holds one of the
\* contents of C, received by the requests before this one: the offset is
\* the size of the staging file, the session record holds the Session, no
\* node is bound. A Session with a VersionsPath replaces a node that exists.
InitWith(S, C) ==
    /\ bin \in C
    /\ Session \in {[s EXCEPT !.Offset = Len(bin)] : s \in S}
    /\ Node = FALSE
    /\ async \in BOOLEAN
    /\ pub \in BOOLEAN
    /\ binExists = TRUE
    /\ info = [exists |-> TRUE, rec |-> Session]
    /\ node = IF Session.VersionsPath = ""
              THEN [exists |-> FALSE, link |-> FALSE, attrs |-> NoAttrs]
              ELSE [exists |-> TRUE, link |-> TRUE, attrs |-> OldAttrs]
    /\ version = [exists |-> FALSE, attrs |-> NoAttrs]
    /\ blob = [exists |-> FALSE, data |-> <<>>]
    /\ last = NoCall
    /\ chunksOnly = TRUE
    /\ submitted = bin

\* Uploads of a declared size that expect no digest or the SHA1 of RefA: at
\* the end of the request that wrote their last chunk, or (those that expect
\* no digest) before any chunk or between two chunks.
Init ==
    /\ InitWith({s \in Sessions :
                   /\ ~s.SizeIsDeferred
                   /\ s.ChecksumSHA1 \in {<<>>, EncodeToString(Sha1Sum(RefA))}
                   /\ s.ChecksumMD5 = <<>>
                   /\ s.ChecksumADLER32 = <<>>},
                {<<>>, RefA, RefB})
    /\ \/ bin \in {RefA, RefB} /\ Session.Size = Len(bin)
       \/ /\ bin \in {<<>>, RefA}
          /\ Session.Size = MaxStaged
          /\ Session.ChecksumSHA1 = <<>>

\* Uploads just initiated that expect no digest: the size is deferred, or
\* declared as MaxStaged.
InitIngest ==
    /\ InitWith({s \in Sessions :
                   /\ s.Size = IF s.SizeIsDeferred THEN 0 ELSE MaxStaged
                   /\ s.ChecksumSHA1 = <<>>
                   /\ s.ChecksumMD5 = <<>>
                   /\ s.ChecksumADLER32 = <<>>
                   /\ s.VersionsPath = ""},
                {<<>>})
    /\ ~async
    /\ ~pub

\* ----------------------------------------------------------------- actions
\* The calls that can fail in an invocation are the calls it makes: F names
\* only calls that were made and failed (any other member changes nothing).
Consulted(F, calls) ==
    \A f \in F : \E i \in 1..Len(calls) : calls[i].name = f /\ calls[i].err # "nil"

\* The calls of the node branch of cleanup, for this Session.
NodeFaults ==
    IF Session.VersionsPath = "" THEN {"RemoveItem", "os.Remove(link)"}
    ELSE {"CopyMetadata", "os.RemoveAll"}

\* The calls of cleanup.
CleanupFaults == NodeFaults \cup {"os.Remove(BinPath)", "Session.Purge"}

\* The calls of FinishUpload, for this Upload.
FinishFaults ==
    {"os.Open", "io.Copy", "CreateNodeForUpload", "Propagate", "UnmarkProcessing"}
    \cup (IF pub THEN {"URL", "Publish"} ELSE {})
    \cup (IF async THEN {} ELSE {"WriteBlob"})
    \cup CleanupFaults

\* The upload has one caller, and every call blocks: a call starts when the
\* call before it has returned and its result was taken.
Idle == last.op = "none"

\* The partial uploads ConcatUploads is given: staging files of other uploads.
Parts ==
    {[exists |-> TRUE, data |-> d] : d \in SeqsUpTo(Bytes, MaxPartLen)}
    \cup {[exists |-> FALSE, data |-> <<>>]}

WriteChunk ==
    /\ Idle
    /\ \E offset \in 0..MaxStaged, err \in CopyErrors,
          F \in FaultSets({"os.OpenFile"}) :
       \E data \in SeqsUpTo(Bytes, MaxStaged - Len(bin)) :
           LET r == WriteChunkResult(Here, offset, [data |-> data, err |-> err], F)
           IN  /\ Becomes(r.st)
               /\ last' = [NoCall EXCEPT !.op = "WriteChunk", !.offset = offset,
                                         !.data = data, !.end = err, !.n = r.n,
                                         !.err = r.err, !.calls = r.st.calls]
               /\ submitted' = IF chunksOnly /\ r.err # "OpenError"
                               THEN submitted \o data ELSE submitted
               /\ UNCHANGED <<async, pub, chunksOnly>>

DeclareLength ==
    /\ Idle
    /\ \E length \in 0..MaxStaged, F \in FaultSets({"Session.Persist"}) :
           LET r == DeclareLengthResult(Here, length, F)
           IN  /\ Becomes(r.st)
               /\ last' = [NoCall EXCEPT !.op = "DeclareLength", !.length = length,
                                         !.err = r.err, !.calls = r.st.calls]
               /\ UNCHANGED <<async, pub, chunksOnly, submitted>>

ConcatUploads ==
    /\ Idle
    /\ \E uploads \in SeqsUpTo(Parts, MaxStaged - Len(bin)),
          F \in FaultSets({"os.OpenFile"}) :
       \E failAt \in 0..Len(uploads) :
       \E cut \in IF failAt = 0 THEN {0} ELSE 0..Len(uploads[failAt].data) :
           LET r == ConcatUploadsResult(Here, uploads, failAt, cut, F)
           IN  /\ Becomes(r.st)
               /\ last' = [NoCall EXCEPT !.op = "ConcatUploads", !.err = r.err,
                                         !.n = Len(uploads), !.parts = uploads,
                                         !.calls = r.st.calls]
               /\ chunksOnly' = FALSE
               /\ submitted' = <<>>
               /\ UNCHANGED <<async, pub>>

FinishUpload ==
    /\ Idle
    /\ \E F \in FaultSets(FinishFaults) :
       \E k \in IF "io.Copy" \in F THEN 0..Len(bin) ELSE {0} :
           LET r == FinishUploadResult(Here, async, pub, F, k)
           IN  /\ Consulted(F, r.st.calls)
               /\ Becomes(r.st)
               /\ last' = [NoCall EXCEPT !.op = "FinishUpload", !.err = r.err,
                                         !.calls = r.st.calls,
                                         !.hashed = HashedBytes(Here, F, k)]
               /\ chunksOnly' = FALSE
               /\ submitted' = <<>>
               /\ UNCHANGED <<async, pub>>

Terminate ==
    /\ Idle
    /\ \E F \in FaultSets(CleanupFaults) :
           LET r == TerminateResult(Here, F)
           IN  /\ Consulted(F, r.st.calls)
               /\ Becomes(r.st)
               /\ last' = [NoCall EXCEPT !.op = "Terminate", !.err = r.err,
                                         !.calls = r.st.calls]
               /\ chunksOnly' = FALSE
               /\ submitted' = <<>>
               /\ UNCHANGED <<async, pub>>

\* The driver of asynchronous postprocessing (and any other caller) calls
\* the exported Cleanup.
CleanupCall ==
    /\ Idle
    /\ \E failure \in BOOLEAN, keepUpload \in BOOLEAN,
          F \in FaultSets(CleanupFaults \cup {"UnmarkProcessing"}) :
           LET st == Cleanup(Here, failure, keepUpload, F)
           IN  /\ Consulted(F, st.calls)
               /\ Becomes(st)
               /\ last' = [NoCall EXCEPT !.op = "Cleanup", !.failure = failure,
                                         !.keepUpload = keepUpload, !.calls = st.calls]
               /\ chunksOnly' = FALSE
               /\ submitted' = <<>>
               /\ UNCHANGED <<async, pub>>

FinalizeCall ==
    /\ Idle
    /\ \E F \in FaultSets({"ReadNode", "WriteBlob"}) :
           LET r == Finalize(Here, F)
           IN  /\ Consulted(F, r.st.calls)
               /\ Becomes(r.st)
               /\ last' = [NoCall EXCEPT !.op = "Finalize", !.err = r.err,
                                         !.calls = r.st.calls]
               /\ chunksOnly' = FALSE
               /\ submitted' = <<>>
               /\ UNCHANGED <<async, pub>>

\* The caller takes the result of the call that returned.
Return ==
    /\ ~Idle
    /\ last' = NoCall
    /\ UNCHANGED <<Session, Node, async, pub, binExists, bin, info, node, version,
                   blob, chunksOnly, submitted>>

\* ---------------------------------------------------------- specifications
\* The calls that end an upload: on an upload whose chunks were received,
\* any sequence of FinishUpload, Finalize, Cleanup and Terminate.
Next ==
    \/ FinishUpload
    \/ Terminate
    \/ CleanupCall
    \/ FinalizeCall
    \/ Return

Spec == Init /\ [][Next]_vars

\* The calls that fill the staging file of an upload just initiated.
NextIngest ==
    \/ WriteChunk
    \/ DeclareLength
    \/ ConcatUploads
    \/ Return

SpecIngest == InitIngest /\ [][NextIngest]_vars

\* Finishing uploads that declare any combination of expected digests.
InitDigest ==
    /\ InitWith({s \in Sessions : ~s.SizeIsDeferred /\ s.VersionsPath = ""},
                {RefA, RefB})
    /\ Session.Size = Len(bin)
    /\ ~pub

NextDigest ==
    \/ FinishUpload
    \/ Return

SpecDigest == InitDigest /\ [][NextDigest]_vars

\* ------------------------------------------------------------------ claims
\* The calls of c that returned an error other than "already absent".
FailedIn(calls, name) ==
    \E i \in 1..Len(calls) :
        calls[i].name = name /\ calls[i].err \notin {"nil", "ErrNotExist"}

CalledIn(calls, name) == \E i \in 1..Len(calls) : calls[i].name = name

\* C1: in every state reached by WriteChunk calls alone (chunks that
\* complete, pause with io.ErrUnexpectedEOF or fail with another error after
\* some bytes were copied), Session.Offset is the number of bytes appended to
\* the staging file.
C1_OffsetIsBytesAppended ==
    chunksOnly => Session.Offset = Len(bin)

\* C2: a WriteChunk whose stream ends with io.ErrUnexpectedEOF after n bytes
\* were copied returns (n, nil), advances Session.Offset by n, keeps the n
\* bytes at the end of the staging file and changes nothing else: no cleanup
\* runs.
C2_Paused ==
    /\ last'.op = "WriteChunk"
    /\ last'.end = "ErrUnexpectedEOF"
    /\ CalledIn(last'.calls, "io.Copy")

C2_PauseIsNoFailure ==
    [][C2_Paused =>
        /\ last'.n = Len(last'.data)
        /\ last'.err = "nil"
        /\ Session' = [Session EXCEPT !.Offset = @ + last'.n]
        /\ bin' = bin \o last'.data
        /\ binExists'
        /\ <<Node, info, node, version, blob>>' = <<Node, info, node, version, blob>>
        /\ \A i \in 1..Len(last'.calls) :
              last'.calls[i].name \in {"os.OpenFile", "io.Copy"}]_vars

\* A second chunk paused after one byte: the staging file holds the bytes of
\* both chunks and the offset counts them.
C2_Witness ==
    /\ last.op = "WriteChunk"
    /\ last.end = "ErrUnexpectedEOF"
    /\ last.n = 1
    /\ last.err = "nil"
    /\ Len(bin) = 2
    /\ Session.Offset = 2

\* C3: for every sequence of WriteChunk calls whose chunk lengths sum to the
\* declared Size, the staging file holds the chunks concatenated in the order
\* they were submitted, and Session.Offset = Session.Size when FinishUpload
\* is entered (FinishUpload can be entered in any of these states).
C3_ChunksConcatenated ==
    (chunksOnly /\ ~Session.SizeIsDeferred /\ Len(submitted) = Session.Size)
        => (bin = submitted /\ Session.Offset = Session.Size)

\* C4: once the size is known, 0 <= Session.Offset <= Session.Size in every
\* state reached by WriteChunk and DeclareLength calls.
C4_OffsetWithinSize ==
    ~Session.SizeIsDeferred => (0 <= Session.Offset /\ Session.Offset <= Session.Size)

\* The calls that commit an upload, and the calls cleanup makes.
CommitCalls ==
    {"CreateNodeForUpload", "URL", "Publish", "ReadNode", "WriteBlob", "Propagate"}

CleanupCalls ==
    {"RemoveItem", "os.Remove(link)", "CopyMetadata", "os.RemoveAll",
     "os.Remove(BinPath)", "Session.Purge", "UnmarkProcessing"}

NoneCalled(calls, names) == \A i \in 1..Len(calls) : calls[i].name \notin names

Succeeded(calls, name) ==
    \E i \in 1..Len(calls) : calls[i].name = name /\ calls[i].err = "nil"

Mismatched(c) == c.op = "FinishUpload" /\ c.err = "ChecksumMismatch"

\* C5 as stated: a FinishUpload that finds a digest mismatch returns the
\* checksum-mismatch error without any of the commit calls, and afterwards
\* a non-versioned upload has no node, no staging file and no session record.
C5_MismatchLeavesNothing ==
    Mismatched(last) =>
        /\ NoneCalled(last.calls, CommitCalls)
        /\ Session.VersionsPath = "" =>
              (~node.exists /\ ~binExists /\ ~info.exists)

\* C5 amended: a FinishUpload that finds a digest mismatch returns the
\* checksum-mismatch error without any of the commit calls; afterwards a
\* non-versioned upload holds no node, and the staging file, the session
\* record and a node the upload held are gone unless the call removing them
\* failed (which is only logged). No node appears.
C5_MismatchCleansUp ==
    [][Mismatched(last') =>
        /\ NoneCalled(last'.calls, CommitCalls)
        /\ Session.VersionsPath = "" =>
              /\ ~Node'
              /\ node'.exists =>
                    (node.exists /\ (~Node \/ FailedIn(last'.calls, "RemoveItem")))
              /\ binExists' => FailedIn(last'.calls, "os.Remove(BinPath)")
              /\ info'.exists => FailedIn(last'.calls, "Session.Purge")]_vars

\* A mismatch on a non-versioned upload whose cleanup ran without a failure.
C5_Witness ==
    /\ Mismatched(last)
    /\ Session.VersionsPath = ""
    /\ Succeeded(last.calls, "io.Copy")
    /\ Succeeded(last.calls, "os.Remove(BinPath)")
    /\ Succeeded(last.calls, "Session.Purge")
    /\ ~node.exists /\ ~binExists /\ ~info.exists

\* C6: FinishUpload verifies exactly one expected digest, the first non-empty
\* of SHA1, MD5, ADLER32: for every combination of expectations the call
\* fails with a checksum mismatch exactly when that one expectation differs
\* from the digest computed (a wrong MD5 or ADLER32 does not matter when a
\* SHA1 is set), and never when no expectation is set.
C6_PriorityOrder ==
    last.op = "FinishUpload" =>
        LET mismatch == last.err = "ChecksumMismatch"
            sha1 == EncodeToString(Sha1Sum(last.hashed))
            md5 == EncodeToString(Md5Sum(last.hashed))
            adler32 == EncodeToString(Adler32Sum(last.hashed))
        IN  /\ Session.ChecksumSHA1 # <<>> =>
                  (mismatch <=> Session.ChecksumSHA1 # sha1)
            /\ (Session.ChecksumSHA1 = <<>> /\ Session.ChecksumMD5 # <<>>) =>
                  (mismatch <=> Session.ChecksumMD5 # md5)
            /\ (/\ Session.ChecksumSHA1 = <<>>
                /\ Session.ChecksumMD5 = <<>>
                /\ Session.ChecksumADLER32 # <<>>) =>
                  (mismatch <=> Session.ChecksumADLER32 # adler32)
            /\ (/\ Session.ChecksumSHA1 = <<>>
                /\ Session.ChecksumMD5 = <<>>
                /\ Session.ChecksumADLER32 = <<>>) => ~mismatch

\* A matching SHA1 with a wrong MD5 and a wrong ADLER32: the upload finishes.
C6_Witness ==
    /\ last.op = "FinishUpload"
    /\ last.err = "nil"
    /\ last.hashed = RefB
    /\ Session.ChecksumSHA1 = EncodeToString(Sha1Sum(RefB))
    /\ Session.ChecksumMD5 = EncodeToString(Md5Sum(RefA))
    /\ Session.ChecksumADLER32 = EncodeToString(Adler32Sum(RefA))

Marked(n) == n.exists /\ n.attrs[StatusAttr] = Processing

\* A FinishUpload whose verification, commit and event publication succeeded.
Published(c) ==
    /\ c.op = "FinishUpload"
    /\ Succeeded(c.calls, "CreateNodeForUpload")
    /\ ~FailedIn(c.calls, "URL")
    /\ ~FailedIn(c.calls, "Publish")

C8_PropagateAfterCommit ==
    last.op = "FinishUpload" =>
        /\ Cardinality({i \in 1..Len(last.calls) :
                           last.calls[i].name = "Propagate"}) <= 1
        /\ \A i \in 1..Len(last.calls) :
              last.calls[i].name = "Propagate" =>
                  \E j \in 1..(i - 1) :
                      /\ last.calls[j].name = "CreateNodeForUpload"
                      /\ last.calls[j].err = "nil"
        /\ (\/ FailedIn(last.calls, "verify")
            \/ FailedIn(last.calls, "CreateNodeForUpload")) =>
              NoneCalled(last.calls, {"Propagate"})

\* A FinishUpload that committed the node and then propagated.
C8_Witness ==
    /\ last.op = "FinishUpload"
    /\ last.err = "nil"
    /\ Succeeded(last.calls, "CreateNodeForUpload")
    /\ Succeeded(last.calls, "Propagate")

\* The attributes the rollback restores are those of the snapshot v.
RolledBack(n, v) ==
    \A a \in AttrNames : (CopyFilter(a) /\ v.attrs[a] # <<>>) => n.attrs[a] = v.attrs[a]

\* C9 as stated: Terminate, in any state, returns no error and afterwards the
\* staging file is absent, the session record is purged and a node held by
\* the upload is removed (non-versioned) or rolled back to the version
\* snapshot (versioned).
C9_TerminateRemovesAll ==
    [][last'.op = "Terminate" =>
        /\ last'.err = "nil"
        /\ ~binExists'
        /\ ~info'.exists
        /\ (Node /\ Session.VersionsPath = "") => ~node'.exists
        /\ (Node /\ Session.VersionsPath # "" /\ version.exists) =>
              (RolledBack(node', version) /\ ~version'.exists)]_vars

\* C9 amended: Terminate, in any state, returns no error and requests all
\* three cleanup steps, also when steps fail; each step that did not fail has
\* its effect: the staging file is absent unless os.Remove failed, the
\* session record is purged unless Purge failed, a node held by a
\* non-versioned upload is forgotten, and removed unless RemoveItem failed,
\* and the node of a versioned upload has the attributes of the snapshot
\* unless CopyMetadata failed, the snapshot being removed unless os.RemoveAll
\* failed.
C9_TerminateRequestsAll ==
    [][last'.op = "Terminate" =>
        /\ last'.err = "nil"
        /\ CalledIn(last'.calls, "os.Remove(BinPath)")
        /\ CalledIn(last'.calls, "Session.Purge")
        /\ (Node /\ Session.VersionsPath = "") => CalledIn(last'.calls, "RemoveItem")
        /\ (Node /\ Session.VersionsPath # "") => CalledIn(last'.calls, "CopyMetadata")
        /\ binExists' => FailedIn(last'.calls, "os.Remove(BinPath)")
        /\ info'.exists => FailedIn(last'.calls, "Session.Purge")
        /\ (Node /\ Session.VersionsPath = "") =>
              /\ ~Node'
              /\ node'.exists => FailedIn(last'.calls, "RemoveItem")
        /\ (Node /\ Session.VersionsPath # "" /\ version.exists) =>
              /\ ~RolledBack(node', version) => FailedIn(last'.calls, "CopyMetadata")
              /\ version'.exists => FailedIn(last'.calls, "os.RemoveAll")]_vars

\* Terminate after a commit: it removed the node and the session record,
\* failed to remove the staging file, and returned nil.
C9_Witness ==
    /\ last.op = "Terminate"
    /\ last.err = "nil"
    /\ Succeeded(last.calls, "RemoveItem")
    /\ FailedIn(last.calls, "os.Remove(BinPath)")
    /\ Succeeded(last.calls, "Session.Purge")
    /\ ~node.exists
    /\ ~Node
    /\ binExists
    /\ ~info.exists

\* The staging file, the session record and the node were removed by a
\* cleanup, which forgot the node.
AllRemoved == ~binExists /\ ~info.exists /\ ~node.exists /\ ~Node

\* C10: a cleanup (Terminate, or Cleanup with any arguments) of an upload
\* whose staging file, session record and node an earlier cleanup removed
\* changes nothing and is no error: Terminate returns nil, and a file that is
\* already absent is not reported, a message is logged only for a call that
\* failed for another reason.
C10_CleanupIdempotent ==
    [][(last'.op \in {"Terminate", "Cleanup"} /\ AllRemoved) =>
        /\ <<Session, Node, binExists, bin, info, node, version, blob>>'
              = <<Session, Node, binExists, bin, info, node, version, blob>>
        /\ last'.err = "nil"
        /\ CalledIn(last'.calls, "log") =>
              \E i \in 1..Len(last'.calls) :
                  /\ last'.calls[i].name # "log"
                  /\ last'.calls[i].err \notin {"nil", "ErrNotExist"}]_vars

\* A second Terminate has found the staging file and the session record
\* absent, logged nothing and left everything removed.
C10_Witness ==
    /\ last.op = "Terminate"
    /\ last.err = "nil"
    /\ \E i \in 1..Len(last.calls) :
          last.calls[i].name = "os.Remove(BinPath)" /\ last.calls[i].err = "ErrNotExist"
    /\ \E i \in 1..Len(last.calls) :
          last.calls[i].name = "Session.Purge" /\ last.calls[i].err = "ErrNotExist"
    /\ ~CalledIn(last.calls, "log")
    /\ AllRemoved

\* The attributes the claims name as restored by a rollback.
AllowListed ==
    {Sha1Attr, Md5Attr, Adler32Attr, TypeAttr, BlobIDAttr, BlobsizeAttr, MTimeAttr}

\* The attributes of node n after those of AllowListed that snapshot v holds
\* were copied onto it.
Restored(n, v) ==
    [a \in AttrNames |->
        IF a \in AllowListed /\ v.attrs[a] # <<>> THEN v.attrs[a] ELSE n.attrs[a]]

\* A Terminate or Cleanup step that runs the node cleanup of a versioned
\* upload whose node and version snapshot exist.
RollsBack(c) ==
    /\ c.op \in {"Terminate", "Cleanup"}
    /\ CalledIn(c.calls, "CopyMetadata")
    /\ node.exists
    /\ version.exists

\* Apart from the attributes named, n2 has the attributes attrs; the status
\* attribute may also have been cleared by the UnmarkProcessing of Cleanup.
SameAttrs(n2, attrs, c) ==
    \A a \in AttrNames :
        \/ n2.attrs[a] = attrs[a]
        \/ a = StatusAttr /\ Succeeded(c.calls, "UnmarkProcessing") /\ n2.attrs[a] = <<>>

\* C11 as stated: the node cleanup of a versioned upload copies exactly the
\* allow-listed attributes from the version snapshot onto the live node,
\* removes the snapshot, leaves every other attribute of the live node
\* unchanged and does not remove the live node.
C11_RollbackRestores ==
    [][RollsBack(last') =>
        /\ node'.exists
        /\ ~version'.exists
        /\ SameAttrs(node', Restored(node, version), last')]_vars

\* C11 amended: the node cleanup of a versioned upload does not remove the
\* live node and changes no attribute outside the allow-list; when
\* CopyMetadata succeeds the live node has exactly the allow-listed
\* attributes of the snapshot copied onto it, when it fails (only logged) no
\* attribute is copied; in both cases the snapshot is then removed, unless
\* os.RemoveAll fails (only logged).
C11_RollbackRestoresUnlessFailed ==
    [][RollsBack(last') =>
        /\ node'.exists
        /\ version'.exists => FailedIn(last'.calls, "os.RemoveAll")
        /\ IF FailedIn(last'.calls, "CopyMetadata")
           THEN SameAttrs(node', node.attrs, last')
           ELSE SameAttrs(node', Restored(node, version), last')]_vars

\* Terminate after the commit of an overwriting upload: the blob id is the
\* one of the snapshot again, the name and the marker are those the commit
\* wrote, the snapshot is gone.
C11_Witness ==
    /\ last.op = "Terminate"
    /\ Succeeded(last.calls, "CopyMetadata")
    /\ Succeeded(last.calls, "os.RemoveAll")
    /\ node.exists
    /\ ~version.exists
    /\ node.attrs[BlobIDAttr] = OldAttrs[BlobIDAttr]
    /\ node.attrs[NameAttr] # OldAttrs[NameAttr]
    /\ node.attrs[StatusAttr] = Processing

\* The contents of the partial uploads ps one after the other.
RECURSIVE Flatten(_)
Flatten(ps) == IF ps = <<>> THEN <<>> ELSE Head(ps).data \o Flatten(Tail(ps))

\* ps with the parts at i and j swapped.
Swapped(ps, i, j) ==
    [k \in 1..Len(ps) |-> IF k = i THEN ps[j] ELSE IF k = j THEN ps[i] ELSE ps[k]]

\* The staging file a ConcatUploads of ps that meets no error leaves, from
\* the state before the step.
ConcatOf(ps) == ConcatUploadsResult(Here, ps, 0, 0, {}).st.bin

ConcatSucceeded(c) == c.op = "ConcatUploads" /\ c.err = "nil"

\* C12 as stated: after a ConcatUploads that succeeds the staging file holds
\* its previous content followed by the contents of the parts in the given
\* order, each in full; and swapping two parts of different content gives a
\* different staging file.
C12_ConcatNotCommutative ==
    [][ConcatSucceeded(last') =>
        /\ bin' = bin \o Flatten(last'.parts)
        /\ \A i, j \in 1..Len(last'.parts) :
              (i < j /\ last'.parts[i].data # last'.parts[j].data) =>
                  ConcatOf(Swapped(last'.parts, i, j)) # bin']_vars

\* C12 amended: after a ConcatUploads that succeeds the staging file holds
\* its previous content followed by the contents of the parts in the given
\* order, each in full; swapping two parts of different content and equal
\* length gives a different staging file, and swapping two adjacent parts
\* gives a different staging file exactly when their contents do not
\* commute under concatenation (an empty part, or "a" and "aa", commute).
C12_ConcatOrderPreserving ==
    [][ConcatSucceeded(last') =>
        /\ bin' = bin \o Flatten(last'.parts)
        /\ \A i, j \in 1..Len(last'.parts) :
              LET a == last'.parts[i].data
                  b == last'.parts[j].data
                  swapped == ConcatOf(Swapped(last'.parts, i, j))
              IN  /\ (i < j /\ a # b /\ Len(a) = Len(b)) => swapped # bin'
                  /\ j = i + 1 => (swapped # bin' <=> a \o b # b \o a)]_vars

\* Two parts of different content were appended in the order given.
C12_Witness ==
    /\ ConcatSucceeded(last)
    /\ Len(last.parts) = 2
    /\ last.parts[1].data = <<11>>
    /\ last.parts[2].data = <<10, 10>>
    /\ bin = <<11, 10, 10>>

\* C13: a WriteChunk is accepted only when the offset its caller declares is
\* Session.Offset: a chunk declared at another offset is not appended to the
\* staging file, and the offset does not advance.
C13_DeclaredOffsetMustMatch ==
    [][(last'.op = "WriteChunk" /\ last'.offset # Session.Offset) =>
        /\ bin' = bin
        /\ Session'.Offset = Session.Offset]_vars

\* C14: DeclareLength while the size is deferred sets Size to the length
\* given, clears SizeIsDeferred and, unless Persist fails, writes the Session
\* as the session record; DeclareLength when the size is not deferred is
\* rejected and leaves Size unchanged.
C14_DeclareOnlyWhileDeferred ==
    [][last'.op = "DeclareLength" =>
        IF Session.SizeIsDeferred
        THEN /\ Session' = [Session EXCEPT !.Size = last'.length,
                                           !.SizeIsDeferred = FALSE]
             /\ last'.err = "nil" => info' = [exists |-> TRUE, rec |-> Session']
        ELSE /\ last'.err # "nil"
             /\ Session'.Size = Session.Size]_vars

\* A FinishUpload that committed the node and then failed to resolve the
\* URL or to publish the event.
PublishFailed(c) ==
    /\ c.op = "FinishUpload"
    /\ Succeeded(c.calls, "CreateNodeForUpload")
    /\ FailedIn(c.calls, "URL") \/ FailedIn(c.calls, "Publish")

\* C15: with a publisher configured, a FinishUpload whose URL resolution or
\* event publication fails after the commit returns that error at once,
\* without cleanup or rollback: the node is committed, bound to the upload
\* and marked as processing, the staging file, the session record and the
\* blob are as they were, and neither Finalize (ReadNode, WriteBlob) nor
\* Propagate is called.
C15_PublishFailureNoRollback ==
    [][PublishFailed(last') =>
        /\ pub
        /\ last'.err = IF FailedIn(last'.calls, "URL") THEN "URLError"
                       ELSE "PublishError"
        /\ NoneCalled(last'.calls,
                      CleanupCalls \cup {"ReadNode", "WriteBlob", "Propagate"})
        /\ Node'
        /\ Marked(node')
        /\ <<binExists, bin, info, blob>>' = <<binExists, bin, info, blob>>]_vars

\* The event could not be published: the node is committed and marked, the
\* staging file and the session record are there, no blob was written.
C15_Witness ==
    /\ PublishFailed(last)
    /\ last.err = "PublishError"
    /\ Node
    /\ Marked(node)
    /\ binExists
    /\ info.exists
    /\ ~blob.exists

\* A FinishUpload that reached the WriteBlob of Finalize in the request.
SyncFinalized(c) == c.op = "FinishUpload" /\ CalledIn(c.calls, "WriteBlob")

\* The version snapshot a FinishUpload works with: the node it replaces, or
\* the snapshot already there.
Snapshot == IF node.exists THEN [exists |-> TRUE, attrs |-> node.attrs] ELSE version

\* Call a comes before call b in calls.
CalledBefore(calls, a, b) ==
    \E i \in 1..Len(calls) : \E j \in (i + 1)..Len(calls) :
        calls[i].name = a /\ calls[j].name = b

\* C16 as stated: in synchronous mode, when Finalize (WriteBlob) fails the
\* full failure cleanup has happened (node removed or rolled back, staging
\* file removed, session record purged), the error is returned and Propagate
\* is not called; when it succeeds the node is kept, the staging file and the
\* session record are removed and the processing marker is cleared before
\* Propagate is called.
C16_SyncFinalizeCleansUp ==
    [][SyncFinalized(last') =>
        /\ ~async
        /\ ~binExists'
        /\ ~info'.exists
        /\ IF FailedIn(last'.calls, "WriteBlob")
           THEN /\ last'.err = "FinalizeError"
                /\ NoneCalled(last'.calls, {"Propagate"})
                /\ IF Session.VersionsPath = "" THEN ~node'.exists
                   ELSE /\ Snapshot.exists => RolledBack(node', Snapshot)
                        /\ ~version'.exists
           ELSE /\ node'.exists
                /\ ~Marked(node')
                /\ CalledBefore(last'.calls, "UnmarkProcessing", "Propagate")]_vars

\* C16 amended: in synchronous mode, when Finalize (WriteBlob) fails the
\* failure cleanup is run, the error is returned and Propagate is not called;
\* when it succeeds the node is kept and bound, the success cleanup is run
\* and UnmarkProcessing is called before Propagate. Either way the staging
\* file, the session record, the node or version snapshot to remove and the
\* marker are gone unless the call removing them failed (which is only
\* logged), and a rollback restores the snapshot unless CopyMetadata failed.
C16_SyncFinalizeRunsCleanup ==
    [][SyncFinalized(last') =>
        /\ ~async
        /\ binExists' => FailedIn(last'.calls, "os.Remove(BinPath)")
        /\ info'.exists => FailedIn(last'.calls, "Session.Purge")
        /\ IF FailedIn(last'.calls, "WriteBlob")
           THEN /\ last'.err = "FinalizeError"
                /\ NoneCalled(last'.calls, {"Propagate"})
                /\ IF Session.VersionsPath = ""
                   THEN /\ ~Node'
                        /\ node'.exists => FailedIn(last'.calls, "RemoveItem")
                   ELSE /\ node'.exists
                        /\ (Snapshot.exists /\ Succeeded(last'.calls, "CopyMetadata"))
                              => RolledBack(node', Snapshot)
                        /\ version'.exists => FailedIn(last'.calls, "os.RemoveAll")
           ELSE /\ node'.exists
                /\ Node'
                /\ blob'.exists
                /\ NoneCalled(last'.calls, {"RemoveItem", "CopyMetadata", "os.RemoveAll"})
                /\ Marked(node') => FailedIn(last'.calls, "UnmarkProcessing")
                /\ CalledBefore(last'.calls, "UnmarkProcessing", "Propagate")]_vars

\* WriteBlob failed in the request and the failure cleanup removed the node,
\* the staging file and the session record.
C16_Witness ==
    /\ SyncFinalized(last)
    /\ last.err = "FinalizeError"
    /\ Succeeded(last.calls, "RemoveItem")
    /\ Succeeded(last.calls, "os.Remove(BinPath)")
    /\ Succeeded(last.calls, "Session.Purge")
    /\ ~node.exists /\ ~binExists /\ ~info.exists

\* A Cleanup call on an upload that holds a node.
CleansUpNode(c) == c.op = "Cleanup" /\ Node

\* The unmark step of a Cleanup: when UnmarkProcessing succeeds the node is
\* no longer marked, when it fails that is logged; Cleanup returns nothing.
UnmarkStep(c, n2) ==
    /\ Succeeded(c.calls, "UnmarkProcessing") => (n2.exists /\ ~Marked(n2))
    /\ FailedIn(c.calls, "UnmarkProcessing") =>
          \E i \in 1..Len(c.calls) :
              c.calls[i] = Entry("log", 0, "unmarking processing failed")
    /\ c.err = "nil"

\* C17 as stated: every Cleanup call on an upload that holds a node calls
\* UnmarkProcessing on it, whatever the failure flag and whether the upload
\* is versioned or not; an error of that call is logged and Cleanup does not
\* fail.
C17_CleanupAlwaysUnmarks ==
    [][CleansUpNode(last') =>
        /\ CalledIn(last'.calls, "UnmarkProcessing")
        /\ UnmarkStep(last', node')]_vars

\* C17 amended: a Cleanup call on an upload that holds a node calls
\* UnmarkProcessing exactly when the upload still holds the node after the
\* cleanup, that is in every case but the failure cleanup of a non-versioned
\* upload, which removes the node and forgets it instead (a node whose
\* removal failed keeps its attributes, marker included); an error of
\* UnmarkProcessing is logged and Cleanup does not fail.
C17_CleanupUnmarksNodeKept ==
    [][CleansUpNode(last') =>
        /\ CalledIn(last'.calls, "UnmarkProcessing")
              <=> ~(last'.failure /\ Session.VersionsPath = "")
        /\ (last'.failure /\ Session.VersionsPath = "") =>
              /\ ~Node'
              /\ node'.exists => (FailedIn(last'.calls, "RemoveItem") /\ node'.attrs = node.attrs)
        /\ ~(last'.failure /\ Session.VersionsPath = "") => Node'
        /\ UnmarkStep(last', node')]_vars

\* A failure Cleanup of a versioned upload rolled the node back and cleared
\* its marker.
C17_Witness ==
    /\ last.op = "Cleanup"
    /\ last.failure
    /\ Session.VersionsPath # ""
    /\ Succeeded(last.calls, "CopyMetadata")
    /\ Succeeded(last.calls, "UnmarkProcessing")
    /\ Node
    /\ node.exists
    /\ ~Marked(node)

\* A FinishUpload whose verification, commit, publication and, in the
\* request, postprocessing all succeeded.
ReachedLastStep(c) ==
    /\ Published(c)
    /\ ~async => Succeeded(c.calls, "WriteBlob")

\* C18: a FinishUpload whose verification, commit, publication and (when not
\* asynchronous) postprocessing succeeded calls Propagate exactly once, as
\* its last call, with Session.SizeDiff, and returns what Propagate returned;
\* when Propagate fails nothing is cleaned up or rolled back after it: the
\* node stays committed and bound to the upload.
C18_PropagateResultReturned ==
    [][ReachedLastStep(last') =>
        LET calls == last'.calls
            n == Len(calls)
        IN  /\ n > 0
            /\ calls[n].name = "Propagate"
            /\ calls[n].arg = Session.SizeDiff
            /\ \A i \in 1..(n - 1) : calls[i].name # "Propagate"
            /\ last'.err = calls[n].err
            /\ Node'
            /\ node'.exists
            /\ \A a \in AttrNames \ {StatusAttr} :
                  node'.attrs[a] = NewAttrs(Here, ChecksumAttrs(last'.hashed))[a]]_vars

\* Propagate failed after a commit: the error is returned and the node is
\* there.
C18_Witness ==
    /\ ReachedLastStep(last)
    /\ last.err = "PropagateError"
    /\ Node
    /\ node.exists

\* A hex string with every upper-case digit replaced by its lower-case digit.
ToLower(str) ==
    [i \in 1..Len(str) |->
        IF \E k \in 1..16 : UpperDigits[k] = str[i]
        THEN HexDigits[CHOOSE k \in 1..16 : UpperDigits[k] = str[i]]
        ELSE str[i]]

\* Equality of two hex strings up to letter case.
EqualFold(a, b) == ToLower(a) = ToLower(b)

\* The expectation FinishUpload verifies and the digest it is compared with.
Verified(session, hashed) ==
    IF session.ChecksumSHA1 # <<>>
    THEN <<session.ChecksumSHA1, Sha1Sum(hashed)>>
    ELSE IF session.ChecksumMD5 # <<>>
    THEN <<session.ChecksumMD5, Md5Sum(hashed)>>
    ELSE <<session.ChecksumADLER32, Adler32Sum(hashed)>>

\* C19: the expected digest is compared with the computed hex digest without
\* regard to letter case: a FinishUpload whose verified expectation equals
\* the computed digest up to letter case (upper-case hex for one) does not
\* fail with a checksum mismatch.
C19_ComparisonIgnoresCase ==
    (/\ last.op = "FinishUpload"
     /\ Verified(Session, last.hashed)[1] # <<>>
     /\ EqualFold(Verified(Session, last.hashed)[1],
                  EncodeToString(Verified(Session, last.hashed)[2])))
        => last.err # "ChecksumMismatch"

\* A FinishUpload that could not open the staging file or not read it to
\* its end.
ReadFailed(c) ==
    /\ c.op = "FinishUpload"
    /\ FailedIn(c.calls, "os.Open") \/ FailedIn(c.calls, "io.Copy")

NoExpectation(session) ==
    /\ session.ChecksumSHA1 = <<>>
    /\ session.ChecksumMD5 = <<>>
    /\ session.ChecksumADLER32 = <<>>

\* s is the first bytes of t.
IsPrefix(s, t) == Len(s) <= Len(t) /\ s = SubSeq(t, 1, Len(s))

\* C20: a FinishUpload that cannot open or read the staging file does not
\* return that error: both failures are logged, the digests are those of the
\* bytes read so far (of nothing when the open fails), and the verification
\* is done on them. With no expectation it goes on to CreateNodeForUpload,
\* and the node committed carries those digests; with an expectation the
\* call stops before the commit only with a checksum mismatch.
C20_ReadFailureNotReturned ==
    [][ReadFailed(last') =>
        /\ last'.err \notin {"OpenError", "IOError"}
        /\ \E i \in 1..Len(last'.calls) :
              last'.calls[i].name = "log" /\
              last'.calls[i].err \in {"error opening binPath", "error copying checksums"}
        /\ IsPrefix(last'.hashed, bin)
        /\ FailedIn(last'.calls, "os.Open") => last'.hashed = <<>>
        /\ \E i \in 1..Len(last'.calls) :
              last'.calls[i] = Entry("verify", 0, VerifyChecksum(Session, last'.hashed))
        /\ IF NoExpectation(Session)
           THEN CalledIn(last'.calls, "CreateNodeForUpload")
           ELSE ~CalledIn(last'.calls, "CreateNodeForUpload") =>
                    last'.err = "ChecksumMismatch"
        /\ (/\ Succeeded(last'.calls, "CreateNodeForUpload")
            /\ NoneCalled(last'.calls, {"RemoveItem", "CopyMetadata"})) =>
              /\ node'.exists
              /\ \A a \in {Sha1Attr, Md5Attr, Adler32Attr} :
                    node'.attrs[a] = ChecksumAttrs(last'.hashed)[a]]_vars

\* The read of a two-byte staging file failed after one byte, nothing was
\* expected, and the node was committed with the digests of that byte.
C20_Witness ==
    /\ ReadFailed(last)
    /\ NoExpectation(Session)
    /\ binExists
    /\ bin = <<10, 11>>
    /\ last.hashed = <<10>>
    /\ last.err = "nil"
    /\ node.exists
    /\ node.attrs[Sha1Attr] = Sha1Sum(<<10>>)

====
